---- MODULE Spec2Model ----
(***************************************************************************)
(* A model of the Spotify client of Funk66/spotify:                        *)
(*   - the credential store, src/spotify/config.py (MetaConfig / Config);  *)
(*   - the token accessor and the authorize / authenticate / refresh flows *)
(*     of src/spotify/__init__.py (Client);                                *)
(*   - the callback listener (HTTPServer.serve_forever, the request        *)
(*     handler HTTPRequestHandler.do_GET and the shutdown thread it        *)
(*     starts);                                                            *)
(*   - search and replace, the two consumers of the token accessor.        *)
(*                                                                         *)
(* Strings are TLA+ strings, except request paths, which are sequences of  *)
(* one-character strings so that str.split can be computed.  The float     *)
(* field validity and time() are integers (clock ticks).                   *)
(***************************************************************************)
EXTENDS Integers, Sequences, FiniteSets, TLC

VARIABLES
    Config,      \* the store: __meta__['data'], __meta__['loaded'], the file at Config.path
    pc,          \* position of the main thread
    now,         \* the value time() returns
    ret,         \* outcome of the last finished operation of the main thread
    written,     \* history: last value passed to a successful update, per key
    clean,       \* history: every store operation so far named recognized keys only
    op,          \* the Client method the main thread is in: "token", "search", "replace"
    bearer,      \* the value the token accessor returned to that method
    server,      \* the HTTPServer of authorize: its socket, its shutdown flag, its backlog
    threads,     \* shutdown threads started by do_GET that have not yet called shutdown()
    spotify_code,\* the class attribute HTTPRequestHandler.spotify_code
    entry,       \* history: what the token accessor found on entry
    snap,        \* history: the store on entry to the token accessor
    did,         \* history: what the current call of a Client method has done so far
    issued,      \* history: access_token of the last token response that was stored
    authCode,    \* history: the argument of the last call of authenticate
    granted,     \* history: what the last successful authenticate stored, until a refresh
    listen       \* history: what the current listener has handled

storeVars  == <<Config, ret, written, clean>>
clientVars == <<op, bearer, entry, snap, did, issued, authCode, granted>>
serverVars == <<server, threads, spotify_code, listen>>

vars == <<Config, pc, now, ret, written, clean, op, bearer, server, threads,
          spotify_code, entry, snap, did, issued, authCode, granted, listen>>

----------------------------------------------------------------------------
(* Bounds of the model. *)

\* longest keyword mapping passed to update
MaxBatch == 2

\* last clock tick
MaxTime == 2

\* largest expires_in of a token response
MaxExpires == 1

\* most connections made to one listener
MaxRequests == 2

\* longest request path
MaxPathLen == 3

\* most items in a search response
MaxItems == 2

----------------------------------------------------------------------------
(* The credential store: src/spotify/config.py *)

\* the annotations of class Config (config.py:62-66)
Fields == {"client", "secret", "token", "refresh", "validity"}

\* a key that is not a field of Config; a hand-edited file may hold it
Unknown == "extra"

Names == Fields \cup {Unknown}

\* stands for the '' that MetaConfig.__new__ stores in the float field validity
NoValidity == -1

\* MetaConfig.__new__ (config.py:20): every field starts as ''
Default(name) == IF name = "validity" THEN NoValidity ELSE ""

\* values the callers of the store pass, per key
Values(name) ==
    CASE name = "client"   -> {"id"}
      [] name = "secret"   -> {"sec"}
      [] name = "token"    -> {"", "t1", "t2"}
      [] name = "refresh"  -> {"r1"}
      [] name = "validity" -> {1}
      [] name = Unknown    -> {"x"}

\* Python truthiness of a stored value ('' is falsy)
Truthy(name, value) == value # Default(name)

\* dict.update (config.py:41): the keys of src override those of dst
DictUpdate(dst, src) ==
    [k \in DOMAIN dst \cup DOMAIN src |-> IF k \in DOMAIN src THEN src[k] ELSE dst[k]]

\* MetaConfig.__new__ (config.py:17-25) with no file read yet
NewConfig(exists, file) ==
    [data   |-> [k \in Fields |-> Default(k)],
     loaded |-> FALSE,
     exists |-> exists,
     file   |-> file,
     loads  |-> 0]

\* load as it would be if it forgot to set __meta__['loaded']
load_NoFlag(c) ==
    [c EXCEPT !.data  = IF c.exists THEN DictUpdate(c.data, c.file) ELSE c.data,
              !.loads = c.loads + 1]

\* MetaConfig.load (config.py:37-42); loads counts the executions of load
load(c) ==
    [c EXCEPT !.data   = IF c.exists THEN DictUpdate(c.data, c.file) ELSE c.data,
              !.loaded = TRUE,
              !.loads  = c.loads + 1]

\* write as it would be if it created the file and dumped nothing new
write_NoDump(c) == [c EXCEPT !.exists = TRUE]

\* MetaConfig.write (config.py:44-49): the whole of data replaces the file
write(c) == [c EXCEPT !.exists = TRUE, !.file = c.data]

\* MetaConfig.__getattr__ (config.py:27-32); the value read is r.c.data[name]
getattr(c, name) ==
    IF name \notin DOMAIN c.data
    THEN [raised |-> TRUE, c |-> c]
    ELSE [raised |-> FALSE, c |-> IF ~c.loaded THEN load(c) ELSE c]

\* the loop of update as it would be if it stored the value before loading
RECURSIVE UpdateLoop_StoreThenLoad(_, _)
UpdateLoop_StoreThenLoad(c, kwargs) ==
    IF Len(kwargs) = 0
    THEN [raised |-> FALSE, c |-> c]
    ELSE LET name  == Head(kwargs)[1]
             value == Head(kwargs)[2]
         IN  IF name \notin DOMAIN c.data
             THEN [raised |-> TRUE, c |-> c]
             ELSE LET c1 == [c EXCEPT !.data[name] = value]
                  IN  UpdateLoop_StoreThenLoad(IF ~c1.loaded THEN load(c1) ELSE c1,
                                               Tail(kwargs))

\* the loop of MetaConfig.update (config.py:52-57) over the keyword mapping,
\* a sequence of <<name, value>> pairs in the order the caller wrote them
RECURSIVE UpdateLoop(_, _)
UpdateLoop(c, kwargs) ==
    IF Len(kwargs) = 0
    THEN [raised |-> FALSE, c |-> c]
    ELSE LET name  == Head(kwargs)[1]
             value == Head(kwargs)[2]
         IN  IF name \notin DOMAIN c.data
             THEN [raised |-> TRUE, c |-> c]
             ELSE LET c1 == IF ~c.loaded THEN load(c) ELSE c
                  IN  UpdateLoop([c1 EXCEPT !.data[name] = value], Tail(kwargs))

\* MetaConfig.update (config.py:51-58): the loop, then write
update(c, kwargs) ==
    LET r == UpdateLoop(c, kwargs)
    IN  IF r.raised THEN r ELSE [raised |-> FALSE, c |-> write(r.c)]

\* MetaConfig.__setattr__ (config.py:34-35)
setattr(c, name, value) == update(c, <<<<name, value>>>>)

----------------------------------------------------------------------------
(* Inputs of the store operations. *)

Pairs == UNION {{<<name, v>> : v \in Values(name)} : name \in Names}

RECURSIVE Mappings(_)
\* keyword mappings of at most n pairs: a Python call names each keyword once
Mappings(n) ==
    IF n = 0 THEN {<<>>}
    ELSE LET shorter == Mappings(n - 1)
         IN  shorter \cup
             {Append(m, p) : m \in {s \in shorter : Len(s) = n - 1},
                             p \in Pairs}

Distinct(m) == \A i, j \in 1..Len(m) : i # j => m[i][1] # m[j][1]

Kwargs == {m \in Mappings(MaxBatch) : Distinct(m)}

KeysOf(m) == {m[i][1] : i \in 1..Len(m)}

\* the mapping as a function from its keys
AsDict(m) == [k \in KeysOf(m) |-> m[CHOOSE i \in 1..Len(m) : m[i][1] = k][2]]

\* contents the file at Config.path can have when the process starts
InitFiles ==
    { [client |-> "id", secret |-> "sec"],
      [client |-> "id", secret |-> "sec", token |-> "t1", refresh |-> "r1", validity |-> 1],
      [client |-> "id", secret |-> "sec", token |-> "t1", refresh |-> "r1", validity |-> 0],
      [client |-> "id", secret |-> "sec", token |-> "t1"],
      [client |-> "id", secret |-> "sec", extra |-> "x"] }

----------------------------------------------------------------------------
(* The client: src/spotify/__init__.py *)

\* the statuses a remote endpoint answers with
Statuses == {200, 201, 401}

\* access tokens and refresh tokens the token endpoint issues
AccessTokens == {"t1", "t2"}
RefreshTokens == {"r2"}

\* JSON bodies of the token endpoint: refresh_token is optional in them
TokenResponses ==
    [status : {200}, access_token : AccessTokens, expires_in : 0..MaxExpires,
     has_refresh : BOOLEAN, refresh_token : RefreshTokens]
    \cup
    [status : Statuses \ {200}, access_token : {"t1"}, expires_in : {0},
     has_refresh : {FALSE}, refresh_token : RefreshTokens]

\* response as it would be if it never compared the status
response_Lenient(status, success_code) == FALSE

\* Client.response (init.py:45-53): TRUE when it raises SpotifyError
response(status, success_code) == status # success_code

\* the accessor as it would be with its two calls swapped
TokenBranch_Swapped(token, validity, t) ==
    IF ~Truthy("token", token) THEN "refresh"
    ELSE IF validity = NoValidity THEN "TypeError"
    ELSE IF validity < t THEN "authorize"
    ELSE "return"

\* the accessor as it would be if it refreshed every stored token
TokenBranch_Eager(token, validity, t) ==
    IF ~Truthy("token", token) THEN "authorize"
    ELSE IF validity = NoValidity THEN "TypeError"
    ELSE "refresh"

\* Client.token (init.py:57-60): the branch taken for the stored token and
\* validity at time t; '' < time() raises TypeError
TokenBranch(token, validity, t) ==
    IF ~Truthy("token", token) THEN "authorize"
    ELSE IF validity = NoValidity THEN "TypeError"
    ELSE IF validity < t THEN "refresh"
    ELSE "return"

\* authenticate as it would be if it stored the access token under 'client'
authenticate_WrongKey(c, resp, t) ==
    IF resp.status # 200 THEN [raised |-> "SpotifyError", c |-> c]
    ELSE IF ~resp.has_refresh THEN [raised |-> "KeyError", c |-> c]
    ELSE LET r == update(c, << <<"client", resp.access_token>>,
                               <<"validity", t + resp.expires_in>>,
                               <<"refresh", resp.refresh_token>> >>)
         IN  [raised |-> IF r.raised THEN "ConfigError" ELSE "", c |-> r.c]

\* Client.authenticate (init.py:93-98): the store after the token response
authenticate(c, resp, t) ==
    IF response(resp.status, 200) THEN [raised |-> "SpotifyError", c |-> c]
    ELSE IF ~resp.has_refresh THEN [raised |-> "KeyError", c |-> c]
    ELSE LET r == update(c, << <<"token", resp.access_token>>,
                               <<"validity", t + resp.expires_in>>,
                               <<"refresh", resp.refresh_token>> >>)
         IN  [raised |-> IF r.raised THEN "ConfigError" ELSE "", c |-> r.c]

\* refresh as it would be if it stored the new validity but not the new token
refresh_KeepsToken(c, resp, t) ==
    IF resp.status # 200 THEN [raised |-> "SpotifyError", c |-> c]
    ELSE LET r == update(c, << <<"validity", t + resp.expires_in>> >>)
         IN  [raised |-> IF r.raised THEN "ConfigError" ELSE "", c |-> r.c]

\* Client.refresh (init.py:113-114): the store after the token response
refresh(c, resp, t) ==
    IF response(resp.status, 200) THEN [raised |-> "SpotifyError", c |-> c]
    ELSE LET r == update(c, << <<"token", resp.access_token>>,
                               <<"validity", t + resp.expires_in>> >>)
         IN  [raised |-> IF r.raised THEN "ConfigError" ELSE "", c |-> r.c]

\* items of a search response (init.py:144)
Catalog ==
    { [id |-> "u1", name |-> "n1", artists |-> <<[name |-> "a1"]>>, album |-> [name |-> "b1"]],
      [id |-> "u2", name |-> "n2", artists |-> <<[name |-> "a2"], [name |-> "a3"]>>,
       album |-> [name |-> "b2"]] }

RECURSIVE Lists(_)
Lists(len) ==
    IF len = 0 THEN {<<>>}
    ELSE LET shorter == Lists(len - 1)
         IN  shorter \cup {Append(l, item) : l \in shorter, item \in Catalog}

ItemLists == Lists(MaxItems)

Limits == {1, 2}

\* SpotifyTrack built from an item (init.py:147-152)
SpotifyTrack(track) ==
    [uri |-> track.id, title |-> track.name, artist |-> track.artists[1].name,
     album |-> track.album.name]

\* search as it would be if it returned a list whatever the limit
search_AlwaysList(items, limit) ==
    IF Len(items) > 0
    THEN [kind |-> "list", tracks |-> [i \in 1..Len(items) |-> SpotifyTrack(items[i])]]
    ELSE [kind |-> "None", tracks |-> <<>>]

\* Client.search (init.py:144-156): None, one track, or the list of tracks
search(items, limit) ==
    IF Len(items) > 0
    THEN LET tracks == [i \in 1..Len(items) |-> SpotifyTrack(items[i])]
         IN  IF limit = 1 THEN [kind |-> "track", tracks |-> <<tracks[1]>>]
             ELSE [kind |-> "list", tracks |-> tracks]
    ELSE [kind |-> "None", tracks |-> <<>>]

\* history: what a read of self.token finds in the store at time t, told
\* from the stored values alone
Found(token, validity, t) ==
    IF token = "" THEN "no token"
    ELSE IF validity = NoValidity THEN "no validity"
    ELSE IF validity < t THEN "expired"
    ELSE IF validity = t THEN "expiring"
    ELSE "valid"

\* history: no authenticate has stored an answer
NoGrant == [set |-> FALSE, token |-> "", refresh |-> "", expiry |-> 0,
            process |-> "same"]

\* history of one call of a Client method
Zero == [accessor |-> 0,    \* reads of self.token
         at |-> 0,          \* time() when self.token was read
         authorize |-> 0,   \* calls of authorize
         refresh |-> 0,     \* calls of refresh
         browser |-> 0,     \* calls of webbrowser.open
         listener |-> 0,    \* HTTPServer objects serving
         post |-> 0,        \* POSTs to the token endpoint
         status |-> 0,      \* status of the token endpoint's last answer
         returned |-> 0,    \* returns of the token accessor
         api |-> 0]         \* requests to the catalog API

----------------------------------------------------------------------------
(* The callback listener: HTTPServer and HTTPRequestHandler *)

PathChars == {"=", "x"}

RECURSIVE Strings(_)
\* the strings over PathChars of length at most len
Strings(len) ==
    IF len = 0 THEN {<<>>}
    ELSE LET shorter == Strings(len - 1)
         IN  shorter \cup {Append(p, ch) : p \in shorter, ch \in PathChars}

Paths == Strings(MaxPathLen)

RECURSIVE SplitFrom(_, _, _)
SplitFrom(str, part, parts) ==
    IF Len(str) = 0 THEN Append(parts, part)
    ELSE IF Head(str) = "=" THEN SplitFrom(Tail(str), <<>>, Append(parts, part))
    ELSE SplitFrom(Tail(str), Append(part, Head(str)), parts)

\* str.split("=") (init.py:178)
split(str) == SplitFrom(str, <<>>, <<>>)

\* no HTTPServer object exists
NoServer == [bound |-> FALSE, shutdown_request |-> FALSE, backlog |-> <<>>, arrived |-> 0]

\* history of one listener
NoListen == [handled |-> 0, captured |-> 0, late |-> FALSE, first |-> <<"?">>]

----------------------------------------------------------------------------
(* The state when the process starts: class Config exists, nothing is loaded. *)

NoRet == [op |-> "none", name |-> "", raised |-> FALSE, val |-> ""]

Init ==
    /\ Config \in {NewConfig(FALSE, <<>>)} \cup {NewConfig(TRUE, f) : f \in InitFiles}
    /\ pc = "start"
    /\ now = 0
    /\ ret = NoRet
    /\ written = <<>>
    /\ clean = TRUE
    /\ op = "none"
    /\ bearer = ""
    /\ server = NoServer
    /\ threads = 0
    /\ spotify_code = <<>>
    /\ entry = "nothing"
    /\ snap = Config
    /\ did = Zero
    /\ issued = ""
    /\ authCode = <<>>
    /\ granted = NoGrant
    /\ listen = NoListen

\* the main thread is outside every Client method
AtRest == pc \in {"start", "idle"}

----------------------------------------------------------------------------
(* Operations of the store, as its callers invoke them. *)

\* Config.<name>: MetaConfig.__getattr__
Get(name) ==
    /\ AtRest
    /\ LET r == getattr(Config, name)
       IN  /\ Config' = r.c
           /\ ret' = [op |-> "get", name |-> name, raised |-> r.raised,
                      val |-> IF r.raised THEN "" ELSE r.c.data[name]]
    /\ clean' = (clean /\ name \in Fields)
    /\ written' = IF clean' THEN written ELSE <<>>
    /\ UNCHANGED <<pc, now, clientVars, serverVars>>

\* Config.<name> = value: MetaConfig.__setattr__
Set(name, value) ==
    /\ AtRest
    /\ LET r == setattr(Config, name, value)
       IN  /\ Config' = r.c
           /\ ret' = [op |-> "set", name |-> name, raised |-> r.raised, val |-> ""]
           /\ clean' = (clean /\ name \in Fields)
           /\ written' = IF ~clean' THEN <<>>
                         ELSE IF r.raised THEN written
                         ELSE DictUpdate(written, AsDict(<<<<name, value>>>>))
    /\ UNCHANGED <<pc, now, clientVars, serverVars>>

\* Config.update(**kwargs): MetaConfig.update
Update(kwargs) ==
    /\ AtRest
    /\ LET r == update(Config, kwargs)
       IN  /\ Config' = r.c
           /\ ret' = [op |-> "update", name |-> "", raised |-> r.raised, val |-> ""]
           /\ clean' = (clean /\ KeysOf(kwargs) \subseteq Fields)
           /\ written' = IF ~clean' THEN <<>>
                         ELSE IF r.raised THEN written
                         ELSE DictUpdate(written, AsDict(kwargs))
    /\ UNCHANGED <<pc, now, clientVars, serverVars>>

StoreNext ==
    \/ \E name \in Names : Get(name)
    \/ \E name \in Names : \E value \in Values(name) : Set(name, value)
    \/ \E kwargs \in Kwargs : Update(kwargs)

\* the store driven directly by its callers
StoreSpec == Init /\ [][StoreNext]_vars

----------------------------------------------------------------------------
(* The main thread in the methods of Client. *)

Methods == {"token", "search", "replace"}

\* an exception leaves the method and reaches the caller
Raise(exception) ==
    /\ pc' = "idle"
    /\ ret' = [op |-> op, name |-> exception, raised |-> TRUE, val |-> ""]

\* Client.__init__ (init.py:40-43)
ClientInit ==
    /\ pc = "start"
    /\ LET r1 == getattr(Config, "client")
           r2 == IF Truthy("client", r1.c.data["client"])
                 THEN getattr(r1.c, "secret") ELSE r1
           ok == /\ Truthy("client", r2.c.data["client"])
                 /\ Truthy("secret", r2.c.data["secret"])
       IN  /\ Config' = r2.c
           /\ pc' = IF ok THEN "idle" ELSE "start"
           /\ ret' = [op |-> "init", name |-> IF ok THEN "" ELSE "Exception",
                      raised |-> ~ok, val |-> ""]
    /\ UNCHANGED <<now, written, clean, clientVars, serverVars>>

\* a caller reads client.token, or calls search or replace, which read
\* self.token before they send anything (init.py:137, 160); the accessor
\* (init.py:57-60) reads the store and the clock and takes its branch
Call(method) ==
    /\ pc = "idle"
    /\ op' = method
    /\ LET r      == getattr(Config, "token")
           branch == TokenBranch(r.c.data["token"], r.c.data["validity"], now)
       IN  /\ Config' = r.c
           /\ snap' = Config
           /\ entry' = Found(r.c.data["token"], r.c.data["validity"], now)
           /\ did' = [Zero EXCEPT !.accessor = 1, !.at = now]
           /\ IF branch = "TypeError"
              THEN /\ pc' = "idle"
                   /\ ret' = [op |-> method, name |-> "TypeError", raised |-> TRUE,
                              val |-> ""]
              ELSE /\ pc' = branch
                   /\ ret' = NoRet
    \* the histories describe the current call only
    /\ bearer' = ""
    /\ issued' = ""
    /\ authCode' = <<>>
    /\ listen' = NoListen
    /\ UNCHANGED <<now, written, clean, granted, server, threads, spotify_code>>

\* Client.authorize (init.py:64-72): the browser opens, HTTPServer binds
\* port 8888 or raises OSError
Authorize(bind_ok) ==
    /\ pc = "authorize"
    /\ IF bind_ok
       THEN /\ did' = [did EXCEPT !.authorize = @ + 1, !.browser = @ + 1,
                                  !.listener = @ + 1]
            /\ server' = [NoServer EXCEPT !.bound = TRUE]
            /\ listen' = NoListen
            /\ pc' = "serve"
            /\ UNCHANGED ret
       ELSE /\ did' = [did EXCEPT !.authorize = @ + 1, !.browser = @ + 1]
            /\ Raise("OSError")
            /\ UNCHANGED <<server, listen>>
    /\ UNCHANGED <<Config, now, written, clean, op, bearer, entry, snap, issued,
                   authCode, granted, threads, spotify_code>>

\* HTTPRequestHandler.do_GET (init.py:174-182) for the request at the head
\* of the backlog; the request line is read when the handler runs
do_GET(path) ==
    LET parts == split(path)
        late  == Head(server.backlog)
    IN  /\ server' = [server EXCEPT !.backlog = Tail(@)]
        /\ IF Len(parts) < 2
           THEN \* IndexError: socketserver logs it and drops the connection
                /\ listen' = [listen EXCEPT
                                !.handled = @ + 1,
                                !.late = @ \/ late,
                                !.first = IF listen.handled = 0 THEN <<"!">> ELSE @]
                /\ UNCHANGED <<spotify_code, threads>>
           ELSE /\ spotify_code' = parts[2]
                /\ threads' = threads + 1
                /\ listen' = [listen EXCEPT
                                !.handled = @ + 1,
                                !.captured = @ + 1,
                                !.late = @ \/ late,
                                !.first = IF listen.handled = 0 THEN parts[2] ELSE @]

\* serve_forever returns and the with block closes the socket (init.py:72-74);
\* a shutdown thread that has not run yet holds the closed server object, and
\* its shutdown() changes nothing any more
ServeReturn ==
    /\ server' = NoServer
    /\ threads' = 0
    /\ pc' = "authenticate"
    /\ UNCHANGED <<spotify_code, listen>>

\* serve_forever, the test of the while loop: while not __shutdown_request
ServeLoop ==
    /\ pc = "serve"
    /\ IF server.shutdown_request
       THEN ServeReturn
       ELSE pc' = "select" /\ UNCHANGED serverVars
    /\ UNCHANGED <<Config, now, ret, written, clean, clientVars>>

\* serve_forever, the body of the loop: select returns, the flag is tested
\* again, and a ready connection is accepted and handled
ServeSelect(path) ==
    /\ pc = "select"
    /\ IF server.shutdown_request
       THEN ServeReturn
       ELSE IF Len(server.backlog) > 0
            THEN do_GET(path) /\ pc' = "serve"
            ELSE pc' = "serve" /\ UNCHANGED serverVars
    /\ UNCHANGED <<Config, now, ret, written, clean, clientVars>>

\* a browser, or anything else, connects to port 8888
Connect ==
    /\ server.bound
    /\ server.arrived < MaxRequests
    /\ server' = [server EXCEPT !.backlog = Append(@, listen.captured > 0),
                                !.arrived = @ + 1]
    /\ UNCHANGED <<Config, pc, now, ret, written, clean, clientVars, threads,
                   spotify_code, listen>>

\* the thread started at init.py:182 runs server.shutdown() (init.py:175-176)
ShutdownThread ==
    /\ threads > 0
    /\ threads' = threads - 1
    /\ server' = [server EXCEPT !.shutdown_request = TRUE]
    /\ UNCHANGED <<Config, pc, now, ret, written, clean, clientVars, spotify_code,
                   listen>>

\* Client.authorize (init.py:75-76) and Client.authenticate (init.py:78-98)
Authenticate(resp) ==
    /\ pc = "authenticate"
    /\ authCode' = spotify_code
    /\ did' = [did EXCEPT !.post = @ + 1, !.status = resp.status]
    /\ LET r == authenticate(Config, resp, now)
       IN  /\ Config' = r.c
           /\ IF r.raised # ""
              THEN Raise(r.raised) /\ UNCHANGED <<issued, granted>>
              ELSE /\ pc' = "return"
                   /\ issued' = resp.access_token
                   /\ granted' = [set |-> TRUE, token |-> resp.access_token,
                                  refresh |-> resp.refresh_token,
                                  expiry |-> now + resp.expires_in,
                                  process |-> "same"]
                   /\ UNCHANGED ret
    /\ UNCHANGED <<now, written, clean, op, bearer, entry, snap, serverVars>>

\* Client.refresh (init.py:100-114)
Refresh(resp) ==
    /\ pc = "refresh"
    /\ did' = [did EXCEPT !.refresh = @ + 1, !.post = @ + 1, !.status = resp.status]
    /\ LET r == refresh(Config, resp, now)
       IN  /\ Config' = r.c
           /\ IF r.raised # ""
              THEN Raise(r.raised) /\ UNCHANGED <<issued, granted>>
              ELSE /\ pc' = "return"
                   /\ issued' = resp.access_token
                   /\ granted' = NoGrant
                   /\ UNCHANGED ret
    /\ UNCHANGED <<now, written, clean, op, bearer, entry, snap, authCode, serverVars>>

\* Client.token (init.py:61): return Config.token
Return ==
    /\ pc = "return"
    /\ LET r == getattr(Config, "token")
       IN  /\ Config' = r.c
           /\ bearer' = r.c.data["token"]
           /\ IF op = "token"
              THEN /\ pc' = "idle"
                   /\ ret' = [op |-> "token", name |-> "", raised |-> FALSE,
                              val |-> r.c.data["token"]]
              ELSE /\ pc' = op
                   /\ UNCHANGED ret
    /\ did' = [did EXCEPT !.returned = @ + 1]
    /\ UNCHANGED <<now, written, clean, op, entry, snap, issued, authCode,
                   granted, serverVars>>

\* Client.search (init.py:140-156)
Search(status, items, limit) ==
    /\ pc = "search"
    /\ did' = [did EXCEPT !.api = @ + 1]
    /\ IF response(status, 200)
       THEN Raise("SpotifyError")
       ELSE /\ pc' = "idle"
            /\ ret' = [op |-> "search", name |-> "", raised |-> FALSE,
                       val |-> search(items, limit)]
    /\ UNCHANGED <<Config, now, written, clean, op, bearer, entry, snap, issued,
                   authCode, granted, serverVars>>

\* replace as it would be if it took 200 for success, as search does
Replace_Expects200(status) ==
    /\ pc = "replace"
    /\ did' = [did EXCEPT !.api = @ + 1]
    /\ IF response(status, 200)
       THEN Raise("SpotifyError")
       ELSE /\ pc' = "idle"
            /\ ret' = [op |-> "replace", name |-> "", raised |-> FALSE, val |-> ""]
    /\ UNCHANGED <<Config, now, written, clean, op, bearer, entry, snap, issued,
                   authCode, granted, serverVars>>

\* Client.replace (init.py:166-167)
Replace(status) ==
    /\ pc = "replace"
    /\ did' = [did EXCEPT !.api = @ + 1]
    /\ IF response(status, 201)
       THEN Raise("SpotifyError")
       ELSE /\ pc' = "idle"
            /\ ret' = [op |-> "replace", name |-> "", raised |-> FALSE, val |-> ""]
    /\ UNCHANGED <<Config, now, written, clean, op, bearer, entry, snap, issued,
                   authCode, granted, serverVars>>

\* the clock advances
Tick ==
    /\ now < MaxTime
    /\ now' = now + 1
    /\ UNCHANGED <<Config, pc, ret, written, clean, clientVars, serverVars>>

Next ==
    \/ ClientInit
    \/ \E method \in Methods : Call(method)
    \/ \E bind_ok \in BOOLEAN : Authorize(bind_ok)
    \/ ServeLoop
    \/ \E path \in Paths : ServeSelect(path)
    \/ Connect
    \/ ShutdownThread
    \/ \E resp \in TokenResponses : Authenticate(resp)
    \/ \E resp \in TokenResponses : Refresh(resp)
    \/ Return
    \/ \E status \in Statuses, items \in ItemLists, limit \in Limits :
           Search(status, items, limit)
    \/ \E status \in Statuses : Replace(status)
    \/ Tick

\* a process that constructs a Client and uses it
Spec == Init /\ [][Next]_vars

\* the process ends while no method of Client runs, and a new one starts:
\* class Config is created again (config.py:17-25), the file and the clock
\* stay
Restart ==
    /\ pc = "idle"
    /\ pc' = "start"
    /\ Config' = NewConfig(Config.exists, Config.file)
    /\ ret' = NoRet
    /\ op' = "none"
    /\ bearer' = ""
    /\ server' = NoServer
    /\ threads' = 0
    /\ spotify_code' = <<>>
    /\ entry' = "nothing"
    /\ snap' = Config'
    /\ did' = Zero
    /\ issued' = ""
    /\ authCode' = <<>>
    /\ listen' = NoListen
    /\ granted' = IF granted.set THEN [granted EXCEPT !.process = "new"] ELSE granted
    /\ UNCHANGED <<now, written, clean>>

RestartNext == Next \/ Restart

\* processes that follow one another on the same file
RestartSpec == Init /\ [][RestartNext]_vars

----------------------------------------------------------------------------
(* Properties of the token accessor. *)

\* the current read of self.token has returned or has raised
AccessorDone ==
    /\ did.accessor = 1
    /\ \/ did.returned = 1
       \/ pc = "idle" /\ ret.raised /\ did.api = 0

\* C1: a read of self.token that finds no access token calls authorize
\* exactly once (one browser, at most one listener, at most one code
\* exchange, each of them once when the read returns) and never calls
\* refresh, whatever expiry authorize stored.
C1_NoTokenAuthorizesOnce ==
    (did.accessor = 1 /\ entry = "no token") =>
        /\ did.refresh = 0
        /\ did.authorize <= 1 /\ did.browser <= 1
        /\ did.listener <= 1 /\ did.post <= 1
        /\ AccessorDone => did.authorize = 1 /\ did.browser = 1
        /\ did.returned = 1 => did.listener = 1 /\ did.post = 1

\* the read returned after authorize stored an expiry that is not in the future
C1_Witness ==
    /\ entry = "no token" /\ did.returned = 1
    /\ Config.data["validity"] <= now
    /\ did.authorize = 1 /\ did.refresh = 0

\* C2: a read of self.token that finds a token whose validity is before
\* time() calls refresh exactly once, opens no browser, starts no listener,
\* and returns the access token that refresh stored.
C2_ExpiredRefreshesOnce ==
    (did.accessor = 1 /\ entry = "expired") =>
        /\ did.authorize = 0 /\ did.browser = 0 /\ did.listener = 0
        /\ did.refresh <= 1
        /\ AccessorDone => did.refresh = 1
        /\ did.returned = 1 => /\ bearer = issued
                               /\ bearer = Config.data["token"]

\* the read returned a token that differs from the expired one
C2_Witness ==
    /\ entry = "expired" /\ did.returned = 1
    /\ snap.data["validity"] < now
    /\ bearer # snap.data["token"]

\* C3: a read of self.token that finds a token whose validity is after
\* time() returns the stored token, sends nothing to the token endpoint,
\* opens no browser and leaves the store, in memory and on disk, as it was.
C3_ValidTokenUntouched ==
    (did.accessor = 1 /\ entry = "valid") =>
        /\ did.authorize = 0 /\ did.refresh = 0
        /\ did.browser = 0 /\ did.listener = 0 /\ did.post = 0
        /\ did.returned = 0 => did.api = 0
        /\ Config = snap
        /\ did.returned = 1 => bearer = snap.data["token"]

\* the read returned while the validity was still in the future
C3_Witness ==
    /\ entry = "valid" /\ did.returned = 1 /\ op = "token" /\ pc = "idle"
    /\ snap.data["validity"] > now
    /\ ret.val = "t1"

----------------------------------------------------------------------------
(* Properties of the callback listener. *)

\* C4: the listener never handles a connection that arrived after a
\* request's code was captured.
C4_SecondRequestNeverHandled == ~listen.late

----------------------------------------------------------------------------
(* Properties of the credential store. *)

\* C5: an update whose mapping holds a key that is not a field raises
\* ConfigError and leaves the file as it was.
C5_UnknownKeyRejected ==
    [][\A kwargs \in Kwargs :
         (Unknown \in KeysOf(kwargs) /\ Update(kwargs)) =>
             /\ ret'.raised
             /\ Config'.exists = Config.exists
             /\ Config'.file = Config.file]_vars

\* C6: while only the five fields are named, a get returns the value of the
\* latest set or update of its key, and after an update that returns the
\* file holds exactly the in-memory record.
C6_ReadYourWrites ==
    /\ (clean /\ ret.op = "get" /\ ret.name \in DOMAIN written) =>
           /\ ~ret.raised
           /\ ret.val = written[ret.name]
    /\ (ret.op \in {"set", "update"} /\ ~ret.raised) =>
           /\ Config.exists
           /\ Config.file = Config.data

\* a get of token after a set of token, with the file written
C6_Witness ==
    /\ clean /\ ret.op = "get" /\ ret.name = "token"
    /\ "token" \in DOMAIN written
    /\ ret.val = "t1"
    /\ Config.exists /\ Config.file = Config.data

\* C7: the file is loaded at most once; once loaded, it is not read again.
C7_LoadedAtMostOnce ==
    /\ Config.loads <= 1
    /\ Config.loaded => Config.loads = 1

\* a get after the load, while memory and file differ
C7_Witness ==
    /\ Config.loads = 1 /\ Config.exists
    /\ ret.op = "get" /\ ~ret.raised
    /\ Config.file # Config.data

\* C8: a get or a set of a key that is not one of the five fields raises
\* ConfigError.
C8_UnknownKeyRaises ==
    (ret.op \in {"get", "set"} /\ ret.name \notin Fields) => ret.raised

\* C16: an update that raises ConfigError leaves the record in memory as it
\* was: a get of any field returns afterwards what it would have returned
\* before the call.
C16_RejectedBatchApplied ==
    [][\A kwargs \in Kwargs :
         (Update(kwargs) /\ ret'.raised) =>
             \A k \in Fields :
                 getattr(Config', k).c.data[k] = getattr(Config, k).c.data[k]]_vars

\* C17: an update that returns leaves on disk, for every key of the file that
\* its mapping does not name, the value the file held before the call.
C17_WriteKeepsFile ==
    [][\A kwargs \in Kwargs :
         (Update(kwargs) /\ ~ret'.raised /\ Config.exists) =>
             \A k \in DOMAIN Config.file \ KeysOf(kwargs) :
                 /\ k \in DOMAIN Config'.file
                 /\ Config'.file[k] = Config.file[k]]_vars

----------------------------------------------------------------------------
(* Properties of the token flows. *)

TokenFields == {"token", "refresh", "validity"}

\* C9: after construction no step changes the stored client and secret, and
\* token, refresh and validity change, in memory or on disk, only in the
\* step of authenticate or refresh that stores a successful answer.
C9_OnlyTokenFlowsRewrite ==
    [][pc # "start" =>
         /\ Config'.data["client"] = Config.data["client"]
         /\ Config'.data["secret"] = Config.data["secret"]
         /\ Config'.file # Config.file =>
                /\ Config'.file["client"] = Config.data["client"]
                /\ Config'.file["secret"] = Config.data["secret"]
         /\ (\/ \E k \in TokenFields : Config'.data[k] # Config.data[k]
             \/ Config'.file # Config.file) =>
                /\ pc \in {"authenticate", "refresh"}
                /\ pc' = "return"
                /\ did'.status = 200]_vars

\* authenticate stored new tokens and left client and secret alone
C9_Witness ==
    /\ pc = "return" /\ entry = "no token"
    /\ Config.data["token"] # snap.data["token"]
    /\ Config.data["refresh"] # snap.data["refresh"]
    /\ Config.data["client"] = "id" /\ Config.file["client"] = "id"

\* C10: when the token endpoint answers with a status other than 200,
\* authenticate or refresh raises SpotifyError, no second POST follows, and
\* the store is, in memory and on disk, what it was.
C10_FailureRaisesOnce ==
    /\ did.post <= 1
    /\ did.status \notin {0, 200} =>
           /\ pc = "idle" /\ ret.raised /\ ret.name = "SpotifyError"
           /\ did.post = 1
           /\ Config = snap

\* refresh was answered 401
C10_Witness ==
    /\ did.status = 401 /\ did.refresh = 1
    /\ pc = "idle" /\ ret.raised

\* C12: what authenticate stored is on disk, and a later read of self.token
\* made before that validity, in the same process or in a new one, finds a
\* valid token and returns it without a POST, a browser or a listener.
C12_GrantSurvives ==
    granted.set =>
        /\ Config.exists
        /\ {"token", "refresh", "validity"} \subseteq DOMAIN Config.file
        /\ Config.file["token"] = granted.token
        /\ Config.file["refresh"] = granted.refresh
        /\ Config.file["validity"] = granted.expiry
        /\ (did.accessor = 1 /\ did.authorize = 0 /\ did.at < granted.expiry) =>
               /\ entry = "valid"
               /\ did.post = 0 /\ did.browser = 0 /\ did.listener = 0
               /\ did.returned = 1 => bearer = granted.token

\* a new process read self.token before the validity that authenticate stored
C12_Witness ==
    /\ granted.set /\ granted.process = "new"
    /\ did.accessor = 1 /\ did.at < granted.expiry
    /\ did.returned = 1 /\ bearer = granted.token
    /\ did.post = 0

\* C13: replace reads self.token before it sends the PUT, returns without an
\* error exactly when the PUT is answered 201, and raises SpotifyError for
\* every other status, 200 included.
C13_ReplaceNeeds201 ==
    [][\A status \in Statuses :
         Replace(status) =>
             /\ did.accessor = 1 /\ did.returned = 1 /\ did.api = 0
             /\ ret'.op = "replace"
             /\ (status = 201) <=> ~ret'.raised
             /\ (status # 201) => ret'.name = "SpotifyError"]_vars

\* replace returned without an error after one read of self.token and one PUT
C13_Witness ==
    /\ ret.op = "replace" /\ ~ret.raised
    /\ did.returned = 1 /\ did.api = 1

\* C14: a search answered 200 returns None for no items, the track built from
\* items[0] when limit is 1, and otherwise one track per item in the order of
\* the items.
C14_SearchResult ==
    [][\A items \in ItemLists, limit \in Limits :
         Search(200, items, limit) =>
             /\ ~ret'.raised
             /\ IF Len(items) = 0 THEN ret'.val.kind = "None"
                ELSE IF limit = 1
                     THEN /\ ret'.val.kind = "track"
                          /\ ret'.val.tracks =
                                 <<[uri |-> items[1].id, title |-> items[1].name,
                                    artist |-> items[1].artists[1].name,
                                    album |-> items[1].album.name]>>
                     ELSE /\ ret'.val.kind = "list"
                          /\ Len(ret'.val.tracks) = Len(items)
                          /\ \A i \in 1..Len(items) :
                                 /\ ret'.val.tracks[i].uri = items[i].id
                                 /\ ret'.val.tracks[i].title = items[i].name
                                 /\ ret'.val.tracks[i].artist = items[i].artists[1].name
                                 /\ ret'.val.tracks[i].album = items[i].album.name]_vars

\* search returned two tracks that differ, in the order of the two items
C14_Witness ==
    /\ ret.op = "search" /\ ~ret.raised
    /\ ret.val.kind = "list" /\ Len(ret.val.tracks) = 2
    /\ ret.val.tracks[1].uri = "u2" /\ ret.val.tracks[2].uri = "u1"

\* C15: a read of self.token that finds a token whose validity is at or before
\* time(), equal to it included, runs refresh before it returns.
C15_ExpiringRefreshes ==
    (entry \in {"expired", "expiring"} /\ did.returned = 1) => did.refresh = 1

\* C18: whatever its path, a request that the listener handled was answered
\* 200 and started the thread that stops the listener, so that no handled
\* request leaves serve_forever waiting for another one.
C18_EveryRequestStopsListener ==
    listen.handled > 0 =>
        /\ listen.captured = listen.handled
        /\ \/ pc \notin {"serve", "select"}
           \/ threads > 0
           \/ server.shutdown_request

\* C19: authenticate is called once the listener is closed, at most once in a
\* run of authorize, never when no request was handled, and with the code of
\* the first request of the run when that request carried one.
C19_FirstCodeExchanged ==
    [][\A resp \in TokenResponses :
         Authenticate(resp) =>
             /\ ~server.bound
             /\ did.post = 0
             /\ listen.handled > 0
             /\ listen.first # <<"!">> => authCode' = listen.first]_vars

\* C20: when the path of a handled request holds a '=', the captured code is
\* what follows the last '=' of the path.
C20_CodeAfterLastEquals ==
    [][\A path \in Paths :
         (/\ ServeSelect(path)
          /\ listen'.captured = listen.captured + 1) =>
             \E i \in 1..Len(path) :
                 /\ path[i] = "="
                 /\ \A j \in (i + 1)..Len(path) : path[j] # "="
                 /\ spotify_code' = SubSeq(path, i + 1, Len(path))]_vars

\* C11: a refresh that is answered 200 stores the answer's access_token and
\* validity = time() + expires_in, and stores the answer's refresh_token
\* when the answer holds one, leaving the stored one alone when it does not.
C11_RefreshStoresAnswer ==
    [][\A resp \in TokenResponses :
         (resp.status = 200 /\ Refresh(resp)) =>
             /\ Config'.data["token"] = resp.access_token
             /\ Config'.data["validity"] = now + resp.expires_in
             /\ Config'.data["refresh"] =
                    IF resp.has_refresh THEN resp.refresh_token
                    ELSE Config.data["refresh"]]_vars

====
